---------------------------- MODULE Spec2Model ----------------------------
(***************************************************************************)
(* A model of the rtl66 track exporter (midi/track.cpp, here               *)
(* src/src/seq66/midi/trackdata.cpp): the byte codec (add_varinum,         *)
(* add_long, add_short, put_meta, put_seqspec), the regular export         *)
(* track::fill and the song export track::song_fill_track with its         *)
(* helpers song_fill_seq_event and song_fill_seq_trigger.                  *)
(*                                                                         *)
(* The pattern (class sequence) is the input: its event list, length,      *)
(* trigger list and metadata are drawn in Init from bounded sets.  The     *)
(* loops of the exporters are walked one iteration per step, so that the   *)
(* properties are checked on every prefix of the output.                   *)
(***************************************************************************)
EXTENDS Integers, Sequences, FiniteSets, TLC

VARIABLES
    m_events,       \* sequence::m_events, the pattern's event list
    m_length,       \* sequence::m_length, the pattern length in pulses
    m_triggers,     \* sequence::m_triggers, the trigger list
    m_song_mute,    \* sequence::m_song_mute
    m_info,         \* the other members of the sequence read by the exporter
    settings,       \* the usr() and rc() settings read by the exporter
    m_bytes,        \* track::m_bytes, the byte buffer of the track
    pc,             \* the position of the running call
    loc,            \* the local variables of the running call
    result,         \* the value returned by the last finished call
    emitted,        \* history: one record for each add_event/put_seqspec/put_meta call
    ub,             \* history: the undefined operations executed so far
    arg             \* the argument and result of the last call of a codec function

vars == << m_events, m_length, m_triggers, m_song_mute, m_info, settings,
           m_bytes, pc, loc, result, emitted, ub, arg >>

patternVars == << m_events, m_length, m_triggers, m_song_mute, m_info, settings >>

(***************************************************************************)
(* Bounds of the model.                                                    *)
(***************************************************************************)
VarintWindow == 2
MaxVarintCalls == 2
MaxCalls == 1
MaxEvents == 2
MaxTick == 2
MaxLength == 2
MaxSongCalls == 1
MaxRepeatCalls == 2
MaxSongTick == 3
MaxPhaseTick == 12
MaxPhaseLength == 4
MaxTriggers == 10
MaxPackets == 4

(***************************************************************************)
(* Status bytes and meta types.                                            *)
(***************************************************************************)
EVENT_NOTE_OFF == 128
EVENT_NOTE_ON == 144
EVENT_AFTERTOUCH == 160
EVENT_CONTROL_CHANGE == 176
EVENT_PROGRAM_CHANGE == 192
EVENT_CHANNEL_PRESSURE == 208
EVENT_PITCH_WHEEL == 224
EVENT_MIDI_META == 255
EVENT_META_SEQ_NUMBER == 0
EVENT_META_TRACK_NAME == 3
EVENT_META_END_OF_TRACK == 47
EVENT_META_SEQSPEC == 127
c_notes_count == 128

(***************************************************************************)
(* midi::byte arithmetic.                                                  *)
(***************************************************************************)
RECURSIVE Pow2(_)
Pow2(n) == IF n = 0 THEN 1 ELSE 2 * Pow2(n - 1)

Byte(x) == x % 256

Bit7(b) == (b % 256) >= 128

RECURSIVE BitOr(_, _, _)
BitOr(a, b, n) ==
    IF n = 0 THEN 0
    ELSE (IF (a % 2 = 1) \/ (b % 2 = 1) THEN 1 ELSE 0)
         + 2 * BitOr(a \div 2, b \div 2, n - 1)

(***************************************************************************)
(* midi::ulong.  The width of unsigned long depends on the build (LP64: 64 *)
(* bits, LLP64 and 32-bit builds: 32 bits).  A value is kept as the list   *)
(* of its 7-bit groups, least significant first, as add_varinum reads it.  *)
(***************************************************************************)
ULongWidths == {32, 64}

RECURSIVE GroupsOf(_, _)
GroupsOf(v, n) ==
    IF n = 0 THEN << >> ELSE << v % 128 >> \o GroupsOf(v \div 128, n - 1)

RECURSIVE ShiftRight7(_, _)
ShiftRight7(v, n) == IF n = 0 THEN v ELSE ShiftRight7(v \div 128, n - 1)

\* The 7-bit groups of midi::ulong(v) for a long v, in a build of width w:
\* \div and % round down, so the groups of a negative v are those of its
\* two's complement; the topmost group holds the w - 7 * (w \div 7) bits left.
ULongGroups(v, w) ==
    LET full == w \div 7
        rest == w - 7 * full
    IN  GroupsOf(v, full) \o << ShiftRight7(v, full) % Pow2(rest) >>

RECURSIVE TopGroup(_, _)
TopGroup(g, k) ==
    IF k = 1 \/ g[k] # 0 THEN k ELSE TopGroup(g, k - 1)

\* buffer <<= 8; buffer |= b   on a buffer of w bits kept as its bytes, least
\* significant first: the byte shifted past the width is lost.
ShiftIn(buffer, b, w) ==
    LET wide == << b >> \o buffer
    IN  IF Len(wide) > w \div 8 THEN SubSeq(wide, 1, w \div 8) ELSE wide

RECURSIVE VarinumBuffer(_, _, _, _, _)
VarinumBuffer(g, k, top, buffer, w) ==
    IF k > top THEN buffer
    ELSE VarinumBuffer(g, k + 1, top, ShiftIn(buffer, g[k] + 128, w), w)

RECURSIVE VarinumOut(_)
VarinumOut(buffer) ==
    IF buffer = << >> THEN << 0 >>
    ELSE IF Bit7(buffer[1]) THEN << buffer[1] >> \o VarinumOut(Tail(buffer))
    ELSE << buffer[1] >>

\* add_varinum with the first mask taken as 0xFF, as its banner words it
\* ("masks off the lower 8 bits"), instead of 0x7F.
add_varinum_mask8(v, w) ==
    LET g == ULongGroups(v, w)
        top == TopGroup(g, Len(g))
    IN  VarinumOut(VarinumBuffer(g, 2, top, << v % 256 >>, w))

\* add_varinum shifting in four groups whatever the value.
add_varinum_four_groups(v, w) ==
    LET g == ULongGroups(v, w)
    IN  VarinumOut(VarinumBuffer(g, 2, 4, << g[1] >>, w))

\* track::add_varinum(midi::ulong(v)): the bytes it puts, in a build whose
\* unsigned long has w bits.
add_varinum(v, w) ==
    LET g == ULongGroups(v, w)
        top == TopGroup(g, Len(g))
    IN  VarinumOut(VarinumBuffer(g, 2, top, << g[1] >>, w))

\* track::add_long: four bytes, most significant first.
add_long(x) ==
    << (x \div 16777216) % 256, (x \div 65536) % 256, (x \div 256) % 256, x % 256 >>

\* track::add_short: two bytes, most significant first.
add_short(x) == << (x \div 256) % 256, x % 256 >>

\* track::put_meta.
put_meta(metavalue, datalen, deltatime, w) ==
    add_varinum(deltatime, w) \o << EVENT_MIDI_META, metavalue >>
        \o add_varinum(datalen, w)

\* put_seqspec declaring the length of the payload alone.
put_seqspec_payload_only(spec, datalen, w) ==
    put_meta(EVENT_META_SEQSPEC, datalen, 0, w) \o add_long(spec)

\* track::put_seqspec: the declared length counts the 4 bytes of the tag.
put_seqspec(spec, datalen, w) ==
    put_meta(EVENT_META_SEQSPEC, datalen + 4, 0, w) \o add_long(spec)

(***************************************************************************)
(* The event (class event, not in the sources at hand: its predicates are  *)
(* the ones the exporter's comments describe).  An event is a record       *)
(* [timestamp, status, channel, d0, d1, sysex]; status holds the high      *)
(* nibble for a channel event, 0xF0 for SysEx and 0xFF for meta, and       *)
(* channel holds the meta type of a meta event.                            *)
(***************************************************************************)
EVENT_MIDI_SYSEX == 240
EVENT_MIDI_SYSEX_END == 247
EVENT_META_SET_TEMPO == 81

mask_status(st) == (st \div 16) * 16

is_ex_data(e) == e.status \in {EVENT_MIDI_SYSEX, EVENT_MIDI_META}

is_meta(e) == e.status = EVENT_MIDI_META

has_channel(e) == e.status >= EVENT_NOTE_OFF /\ e.status < EVENT_MIDI_SYSEX

\* "includes aftertouch" (track::song_fill_seq_event).
is_note(e) == mask_status(e.status) \in {EVENT_NOTE_OFF, EVENT_NOTE_ON, EVENT_AFTERTOUCH}

is_note_on(e) == mask_status(e.status) = EVENT_NOTE_ON

is_note_off(e) == mask_status(e.status) = EVENT_NOTE_OFF

get_note(e) == e.d0

\* event::transpose_note: the note moved by tn semitones, kept in 0 .. 127.
transpose_note(e, tn) ==
    LET n == e.d0 + tn
    IN  [e EXCEPT !.d0 = IF n < 0 THEN 0 ELSE IF n >= c_notes_count THEN c_notes_count - 1 ELSE n]

\* The order eventlist::sort() keeps: by timestamp, and at the same
\* timestamp note-off before note-on before the rest.
event_rank(e) ==
    IF is_note_off(e) THEN 0 ELSE IF is_note_on(e) THEN 1 ELSE 2

event_less(a, b) ==
    \/ a.timestamp < b.timestamp
    \/ a.timestamp = b.timestamp /\ event_rank(a) < event_rank(b)

RECURSIVE sort_insert(_, _)
sort_insert(sorted, e) ==
    IF sorted = << >> THEN << e >>
    ELSE IF event_less(e, sorted[Len(sorted)])
         THEN sort_insert(SubSeq(sorted, 1, Len(sorted) - 1), e) \o << sorted[Len(sorted)] >>
         ELSE sorted \o << e >>

RECURSIVE sort_from(_, _, _)
sort_from(list, k, sorted) ==
    IF k > Len(list) THEN sorted
    ELSE sort_from(list, k + 1, sort_insert(sorted, list[k]))

\* eventlist::sort(), a stable sort.
sort(list) == sort_from(list, 1, << >>)

(***************************************************************************)
(* The trigger (class trigger, not in the sources at hand): a record       *)
(* [tick_start, tick_end, offset, transpose].                              *)
(***************************************************************************)
\* trigger::length(): tick_end is inclusive ("off by 1", song_fill_track banner).
trigger_length(t) == t.tick_end - t.tick_start + 1

trigger_transposed(t) == t.transpose # 0

\* trigger::transpose_byte(): 0 for no transposition, else 0x40 + transpose.
transpose_byte(t) == IF t.transpose = 0 THEN 0 ELSE 64 + t.transpose

any_trigger_transposed(trigs) == \E k \in 1 .. Len(trigs) : trigger_transposed(trigs[k])

(***************************************************************************)
(* SeqSpec tags (0x242400nn).                                              *)
(***************************************************************************)
c_prop_base == 606339072
c_midibus == c_prop_base + 1
c_midichannel == c_prop_base + 2
c_timesig == c_prop_base + 6
c_triggers_ex == c_prop_base + 8
c_musickey == c_prop_base + 17
c_musicscale == c_prop_base + 18
c_backsequence == c_prop_base + 19
c_transpose == c_prop_base + 20
c_seq_color == c_prop_base + 27
c_seq_loopcount == c_prop_base + 30
c_trig_transpose == c_prop_base + 32

\* trigger::datasize(): three longs, and a byte more with c_trig_transpose.
trigger_datasize(tag) == IF tag = c_trig_transpose THEN 13 ELSE 12

triggers_datasize(trigs, tag) == Len(trigs) * trigger_datasize(tag)

(***************************************************************************)
(* The members of the sequence and the settings the exporter reads.        *)
(***************************************************************************)
c_key_of_C == 0
c_scales_off == 0
c_seq_color_none == -1
c_seq_limit == 2048
null_channel == 128

is_null_channel(c) == c = null_channel

\* seq::valid(): a sequence number that names a pattern.
seq_valid(n) == n >= 0 /\ n < c_seq_limit

DefaultInfo ==
    [ name |-> << 80 >>, midi_bus |-> 0, midi_channel |-> 0, free_channel |-> FALSE,
      beats_per_bar |-> 4, beat_width |-> 4, ppqn |-> 1,
      musical_key |-> c_key_of_C, musical_scale |-> c_scales_off,
      background_sequence |-> c_seq_limit, transposable |-> TRUE,
      color |-> c_seq_color_none, loop_count_max |-> 0 ]

DefaultSettings == [ global_seq_feature |-> FALSE, save_old_triggers |-> FALSE ]

\* sequence::is_exportable(), without the test of the trigger count.
is_exportable_unmuted_only == ~ m_song_mute

\* sequence::is_exportable().
is_exportable == ~ m_song_mute /\ Len(m_triggers) > 0

\* seq66::measures_to_ticks() for one measure, as sequence::measures_to_ticks()
\* calls it.
measures_to_ticks ==
    IF m_info.beat_width > 0
    THEN (4 * m_info.ppqn * m_info.beats_per_bar) \div m_info.beat_width
    ELSE 0

(***************************************************************************)
(* Events and meta events written to the buffer.                           *)
(***************************************************************************)
RECURSIVE put_all(_, _)
put_all(data, k) ==
    IF k > Len(data) THEN << >> ELSE << Byte(data[k]) >> \o put_all(data, k + 1)

\* track::add_ex_event.
add_ex_event(e, deltatime, w) ==
    add_varinum(deltatime, w)
        \o << Byte(e.status) >>
        \o (IF is_meta(e) THEN << Byte(e.channel) >> ELSE << >>)
        \o add_varinum(Len(e.sysex), w)
        \o put_all(e.sysex, 1)

\* The status byte with the channel of the event, whatever the pattern.
status_byte_of_event(e) == BitOr(e.status, e.channel, 8)

\* The status byte track::add_event puts for an event that is not SysEx or
\* meta: st | e.channel() or st | channel.
status_byte(e) ==
    LET channel == m_info.midi_channel
        st == e.status
    IN  IF m_info.free_channel \/ is_null_channel(channel)
        THEN BitOr(st, e.channel, 8)
        ELSE BitOr(st, channel, 8)

\* track::add_event.
add_event(e, deltatime, w) ==
    IF is_ex_data(e) THEN add_ex_event(e, deltatime, w)
    ELSE
        LET st == e.status
            first == status_byte(e)
            data ==
                IF ~ has_channel(e) THEN << >>
                ELSE IF mask_status(st) \in
                        { EVENT_NOTE_OFF, EVENT_NOTE_ON, EVENT_AFTERTOUCH,
                          EVENT_CONTROL_CHANGE, EVENT_PITCH_WHEEL }
                THEN << Byte(e.d0), Byte(e.d1) >>
                ELSE IF mask_status(st) \in { EVENT_PROGRAM_CHANGE, EVENT_CHANNEL_PRESSURE }
                THEN << Byte(e.d0) >>
                ELSE << >>
        IN  add_varinum(deltatime, w) \o << first >> \o data

\* track::fill_seq_number.
fill_seq_number(seq, w) ==
    put_meta(EVENT_META_SEQ_NUMBER, 2, 0, w) \o add_short(seq)

\* track::fill_seq_name.
fill_seq_name(name, w) ==
    put_meta(EVENT_META_TRACK_NAME, Len(name), 0, w) \o put_all(name, 1)

\* An end of track written with the type of a track name.
fill_meta_track_end_as_name(deltatime, w) ==
    put_meta(EVENT_META_TRACK_NAME, 0, deltatime, w)

\* track::fill_meta_track_end.
fill_meta_track_end(deltatime, w) == put_meta(EVENT_META_END_OF_TRACK, 0, deltatime, w)

\* track::fill_proprietary.
fill_proprietary(w) ==
    put_seqspec(c_midibus, 1, w) \o << Byte(m_info.midi_bus) >>
    \o put_seqspec(c_timesig, 2, w)
    \o << Byte(m_info.beats_per_bar), Byte(m_info.beat_width) >>
    \o put_seqspec(c_midichannel, 1, w) \o << Byte(m_info.midi_channel) >>
    \o (IF settings.global_seq_feature THEN << >>
        ELSE (IF m_info.musical_key # c_key_of_C
              THEN put_seqspec(c_musickey, 1, w) \o << Byte(m_info.musical_key) >>
              ELSE << >>)
          \o (IF m_info.musical_scale # c_scales_off
              THEN put_seqspec(c_musicscale, 1, w) \o << Byte(m_info.musical_scale) >>
              ELSE << >>)
          \o (IF seq_valid(m_info.background_sequence)
              THEN put_seqspec(c_backsequence, 4, w) \o add_long(m_info.background_sequence)
              ELSE << >>))
    \o put_seqspec(c_transpose, 1, w)
    \o << IF m_info.transposable THEN 1 ELSE 0 >>
    \o (IF m_info.color # c_seq_color_none
        THEN put_seqspec(c_seq_color, 1, w) \o << Byte(m_info.color) >>
        ELSE << >>)
    \o (IF m_info.loop_count_max > 0
        THEN put_seqspec(c_seq_loopcount, 2, w) \o add_short(m_info.loop_count_max)
        ELSE << >>)

(***************************************************************************)
(* The standard MIDI variable-length decode of the bytes after position    *)
(* at: the low 7 bits of each byte, most significant group first, up to    *)
(* the first byte with bit 7 clear; a fifth byte is malformed (value -1).  *)
(***************************************************************************)
RECURSIVE decode_varint(_, _, _, _)
decode_varint(bytes, at, acc, used) ==
    IF at + 1 > Len(bytes) \/ used = 4 THEN [value |-> -1, used |-> used]
    ELSE LET b == bytes[at + 1]
             nacc == acc * 128 + (b % 128)
         IN  IF Bit7(b)
             THEN decode_varint(bytes, at + 1, nacc, used + 1)
             ELSE [value |-> nacc, used |-> used + 1]

(***************************************************************************)
(* The history of the buffer: what each call that wrote to it was given.   *)
(***************************************************************************)
\* An event written by add_event: e as written, the delta-time and the
\* timestamp it was written with; in song export also the trigger (its index)
\* it was replayed for, its timestamp before clipping and its note in the
\* pattern.
EventEntry(e, deltatime, timestamp, trig, shifted, pnote) ==
    [ kind |-> "event", at |-> Len(m_bytes), delta |-> deltatime, timestamp |-> timestamp,
      status |-> e.status, note |-> e.d0, tag |-> 0,
      trig |-> trig, shifted |-> shifted, pnote |-> pnote ]

SeqSpecEntry(at, tag) ==
    [ kind |-> "seqspec", at |-> at, delta |-> 0, timestamp |-> 0,
      status |-> EVENT_MIDI_META, note |-> 0, tag |-> tag,
      trig |-> 0, shifted |-> 0, pnote |-> 0 ]

MetaEntry(at, metavalue, deltatime) ==
    [ kind |-> "meta", at |-> at, delta |-> deltatime, timestamp |-> 0,
      status |-> EVENT_MIDI_META, note |-> metavalue, tag |-> 0,
      trig |-> 0, shifted |-> 0, pnote |-> 0 ]

Idle == [ fn |-> "none", calls |-> 0 ]

(***************************************************************************)
(* track::fill, the regular export.                                        *)
(***************************************************************************)
\* deltatime = timestamp - prevtimestamp with the operands exchanged.
fill_deltatime_swapped(timestamp, prevtimestamp) == prevtimestamp - timestamp

\* deltatime = timestamp - prevtimestamp.
fill_deltatime(timestamp, prevtimestamp) == timestamp - prevtimestamp

\* The call before this one, as this one finds it: what was called, with
\* what, and the buffer it left.
PreviousCall ==
    [ fn |-> loc.fn,
      args |-> IF loc.fn = "fill" THEN << loc.track, loc.doseqspec >>
               ELSE IF loc.fn = "song_fill_track" THEN << loc.track, loc.standalone >>
               ELSE << >>,
      bytes |-> m_bytes ]

\* The pattern's event list with evl.sort() applied to it in place.
events_sorted_in_place(list) == sort(list)

\* The pattern's event list after `eventlist evl = seq().events();
\* evl.sort()`: the sort works on the copy evl.
events_after_sort(list) == list

\* The copy of the event list is sorted; the sequence number and the name
\* are written.  The buffer is not cleared.
FillBegin(track, doseqspec, w) ==
    /\ pc = "idle"
    /\ LET number == IF doseqspec THEN fill_seq_number(track, w) ELSE << >>
       IN  /\ m_bytes' = m_bytes \o number \o fill_seq_name(m_info.name, w)
           /\ emitted' = emitted
                \o (IF doseqspec
                    THEN << MetaEntry(Len(m_bytes), EVENT_META_SEQ_NUMBER, 0) >>
                    ELSE << >>)
                \o << MetaEntry(Len(m_bytes) + Len(number), EVENT_META_TRACK_NAME, 0) >>
    /\ loc' = [ fn |-> "fill", calls |-> loc.calls + 1, track |-> track,
                doseqspec |-> doseqspec, evl |-> sort(m_events), i |-> 1,
                timestamp |-> 0, deltatime |-> 0, prevtimestamp |-> 0, bad |-> FALSE,
                previous |-> PreviousCall ]
    /\ pc' = "fill_events"
    /\ m_events' = events_after_sort(m_events)
    /\ UNCHANGED << m_length, m_triggers, m_song_mute, m_info, settings, result, ub, arg >>

\* One iteration of the loop over the sorted copy.
FillEvent(w) ==
    /\ pc = "fill_events"
    /\ loc.i <= Len(loc.evl)
    /\ LET e == loc.evl[loc.i]
           timestamp == e.timestamp
           deltatime == fill_deltatime(timestamp, loc.prevtimestamp)
       IN  IF deltatime < 0
           THEN /\ loc' = [loc EXCEPT !.timestamp = timestamp, !.deltatime = deltatime,
                                      !.bad = TRUE]
                /\ pc' = "fill_tail"
                /\ UNCHANGED << m_bytes, emitted >>
           ELSE /\ m_bytes' = m_bytes \o add_event(e, deltatime, w)
                /\ emitted' = Append(emitted, EventEntry(e, deltatime, timestamp, 0, timestamp, e.d0))
                /\ loc' = [loc EXCEPT !.timestamp = timestamp, !.deltatime = deltatime,
                                      !.prevtimestamp = timestamp, !.i = loc.i + 1]
                /\ pc' = pc
    /\ UNCHANGED << patternVars, result, ub, arg >>

\* The trigger records with the transpose byte decided trigger by trigger.
RECURSIVE fill_triggers_per_trigger(_, _, _)
fill_triggers_per_trigger(trigs, k, transtriggers) ==
    IF k > Len(trigs) THEN << >>
    ELSE add_long(trigs[k].tick_start) \o add_long(trigs[k].tick_end)
         \o add_long(trigs[k].offset)
         \o (IF transtriggers /\ trigger_transposed(trigs[k])
             THEN << transpose_byte(trigs[k]) >> ELSE << >>)
         \o fill_triggers_per_trigger(trigs, k + 1, transtriggers)

RECURSIVE fill_triggers(_, _, _)
fill_triggers(trigs, k, transtriggers) ==
    IF k > Len(trigs) THEN << >>
    ELSE add_long(trigs[k].tick_start) \o add_long(trigs[k].tick_end)
         \o add_long(trigs[k].offset)
         \o (IF transtriggers THEN << transpose_byte(trigs[k]) >> ELSE << >>)
         \o fill_triggers(trigs, k + 1, transtriggers)

\* The whole pattern length as the delta-time of the end of track.
fill_end_deltatime_whole(len, prevtimestamp) == len

\* len - prevtimestamp, whatever its sign.
fill_end_deltatime_unclamped(len, prevtimestamp) == len - prevtimestamp

\* max(0, len - prevtimestamp), the delta-time of the end of track.
fill_end_deltatime(len, prevtimestamp) ==
    IF len < prevtimestamp THEN 0 ELSE len - prevtimestamp

\* After the loop (left at its end or by the break): the trigger block and
\* the other SeqSpec blocks if asked for, then the end of track.
FillEnd(w) ==
    /\ \/ pc = "fill_tail"
       \/ pc = "fill_events" /\ loc.i > Len(loc.evl)
    /\ LET transtriggers ==
               IF ~ settings.save_old_triggers
               THEN any_trigger_transposed(m_triggers) ELSE FALSE
           tag == IF transtriggers THEN c_trig_transpose ELSE c_triggers_ex
           block ==
               IF loc.doseqspec
               THEN put_seqspec(tag, triggers_datasize(m_triggers, tag), w)
                    \o fill_triggers(m_triggers, 1, transtriggers)
                    \o fill_proprietary(w)
               ELSE << >>
           deltatime == fill_end_deltatime(m_length, loc.prevtimestamp)
       IN  /\ m_bytes' = m_bytes \o block \o fill_meta_track_end(deltatime, w)
           /\ emitted' = emitted
                \o (IF loc.doseqspec THEN << SeqSpecEntry(Len(m_bytes), tag) >> ELSE << >>)
                \o << MetaEntry(Len(m_bytes) + Len(block), EVENT_META_END_OF_TRACK, deltatime) >>
           /\ loc' = [loc EXCEPT !.deltatime = deltatime]
    /\ pc' = "idle"
    /\ UNCHANGED << patternVars, result, ub, arg >>

(***************************************************************************)
(* The patterns given to the regular export: events in any order, with     *)
(* timestamps from -1 (midi::pulse is a signed long).                      *)
(***************************************************************************)
Event(timestamp, status, note) ==
    [ timestamp |-> timestamp, status |-> status, channel |-> 0,
      d0 |-> note, d1 |-> 100, sysex |-> << >> ]

Trigger(tick_start, tick_end, offset, transpose) ==
    [ tick_start |-> tick_start, tick_end |-> tick_end, offset |-> offset,
      transpose |-> transpose ]

SeqsUpTo(S, n) == UNION { [1 .. k -> S] : k \in 0 .. n }

FillEventPool ==
    { Event(t, st, 60) :
        t \in -1 .. MaxTick, st \in {EVENT_NOTE_ON, EVENT_NOTE_OFF, EVENT_CONTROL_CHANGE} }

FillTriggerLists ==
    { << >>, << Trigger(0, 1, 0, 0) >>, << Trigger(0, 1, 0, 1) >> }

Tracks == {0, 258}

InitFill ==
    /\ m_events \in SeqsUpTo(FillEventPool, MaxEvents)
    /\ m_length \in 0 .. MaxLength
    /\ m_triggers \in FillTriggerLists
    /\ m_song_mute = FALSE
    /\ m_info = DefaultInfo
    /\ settings = DefaultSettings
    /\ m_bytes = << >>
    /\ pc = "idle"
    /\ loc = Idle
    /\ result = TRUE
    /\ emitted = << >>
    /\ ub = {}
    /\ arg = [v |-> 0, at |-> 0]

NextFill ==
    \/ /\ loc.calls < MaxCalls
       /\ \E track \in Tracks, doseqspec \in BOOLEAN, w \in ULongWidths :
                FillBegin(track, doseqspec, w)
    \/ \E w \in ULongWidths : FillEvent(w)
    \/ \E w \in ULongWidths : FillEnd(w)

SpecFill == InitFill /\ [][NextFill]_vars

\* C1: in track::fill, once a computed delta-time is negative the export is
\* aborted: from then on the running call appends nothing to the buffer.
NegativeDeltaStopsWriting ==
    [][(pc # "idle" /\ loc.fn = "fill" /\ loc.bad) => m_bytes' = m_bytes]_vars

AllTimestampsNonNegative ==
    \A k \in 1 .. Len(m_events) : m_events[k].timestamp >= 0

\* C2: track::fill sorts its copy of the event list, so for events with
\* non-negative timestamps given in any order every delta-time written is
\* >= 0 and the negative-delta branch is never taken.
FillDeltasNonNegative ==
    (loc.fn = "fill" /\ AllTimestampsNonNegative) =>
        /\ ~ loc.bad
        /\ \A k \in 1 .. Len(emitted) :
              emitted[k].kind = "event" => emitted[k].delta >= 0

\* A finished fill of two events given in descending order of timestamp.
FillDeltasNonNegativeWitness ==
    /\ pc = "idle"
    /\ loc.fn = "fill"
    /\ AllTimestampsNonNegative
    /\ Len(m_events) = 2
    /\ m_events[1].timestamp > m_events[2].timestamp
    /\ Cardinality({ k \in 1 .. Len(emitted) : emitted[k].kind = "event" }) = 2

\* What the running or last call has written: the entries of the history
\* that lie after the buffer the call found and kept (fill keeps it, the
\* song export clears it).
CallBase == IF loc.fn = "fill" THEN Len(loc.previous.bytes) ELSE 0

CallEntries == { k \in 1 .. Len(emitted) : emitted[k].at >= CallBase }

CallEventEntries == { k \in CallEntries : emitted[k].kind = "event" }

\* The timestamp of the last event the call has written, 0 if none.
LastTimestampWritten ==
    IF CallEventEntries = {} THEN 0
    ELSE emitted[CHOOSE k \in CallEventEntries : \A j \in CallEventEntries : j <= k].timestamp

\* C12: track::fill ends with an end-of-track event whose delta-time is
\* max(0, pattern length - timestamp of the last event written), so it is
\* never negative, also when the last event lies past the pattern length.
FillEndOfTrackDelta ==
    (pc = "idle" /\ loc.fn = "fill") =>
        LET x == emitted[Len(emitted)]
            gap == m_length - LastTimestampWritten
            expected == IF gap > 0 THEN gap ELSE 0
        IN  /\ x.kind = "meta"
            /\ x.note = EVENT_META_END_OF_TRACK
            /\ x.delta = expected
            /\ x.delta >= 0
            /\ decode_varint(m_bytes, x.at, 0, 0).value = expected

\* A finished fill whose last event lies past the pattern length.
FillEndOfTrackDeltaWitness ==
    /\ pc = "idle"
    /\ loc.fn = "fill"
    /\ ~ loc.bad
    /\ CallEventEntries # {}
    /\ LastTimestampWritten > m_length
    /\ m_length > 0
    /\ emitted[Len(emitted)].delta = 0

(***************************************************************************)
(* track::song_fill_track, the song export, and its helpers.               *)
(***************************************************************************)
\* The / and % of C++ truncate toward zero.
c_div(a, b) ==
    IF (a >= 0) = (b > 0) THEN (IF a >= 0 THEN a ELSE -a) \div (IF b > 0 THEN b ELSE -b)
    ELSE -((IF a >= 0 THEN a ELSE -a) \div (IF b > 0 THEN b ELSE -b))

c_mod(a, b) == a - b * c_div(a, b)

\* The time offset without the step back by one pattern length.
song_time_offset_unadjusted(trig, len) ==
    trig.tick_start + c_mod(trig.offset, len) - c_mod(trig.tick_start, len)

\* The time offset of the first replay pass (song_fill_seq_event).
song_time_offset(trig, len) ==
    LET trig_offset == c_mod(trig.offset, len)
        start_offset == c_mod(trig.tick_start, len)
        time_offset == trig.tick_start + trig_offset - start_offset
    IN  IF trig_offset > start_offset THEN time_offset - len ELSE time_offset

\* The passes counted without the first one.
song_times_played_less(trig, len) == c_div(trigger_length(trig) - 1, len) - 1

song_times_played(trig, len) == 1 + c_div(trigger_length(trig) - 1, len)

\* A note-on is counted and written only before the trigger's end.
note_on_counted_strict(timestamp, trig) == timestamp < trig.tick_end

\* A note-on is counted and written up to the trigger's end, included.
note_on_counted(timestamp, trig) == timestamp <= trig.tick_end

\* Every note-off is taken to close a note.
note_off_matched_always(used, note) == TRUE

\* A note-off is written only for a note counted as open.
note_off_matched(used, note) == used[note] > 0

\* The body of the loop over the events, for the event e0 of the pattern:
\* whether it is written, the event and the timestamp written, and the
\* open-note counts afterwards.
song_event(e0, time_offset, trig, used) ==
    LET shifted == e0.timestamp + time_offset
        note == get_note(e0)
        e == IF is_note(e0) /\ trigger_transposed(trig)
             THEN transpose_note(e0, trig.transpose) ELSE e0
        skip == [ emit |-> FALSE, e |-> e, timestamp |-> shifted, used |-> used ]
    IN  IF shifted < trig.tick_start THEN skip
        ELSE IF is_note(e0) /\ is_note_on(e0)
        THEN IF note_on_counted(shifted, trig)
             THEN [ emit |-> TRUE, e |-> e, timestamp |-> shifted,
                    used |-> [used EXCEPT ![note] = @ + 1] ]
             ELSE skip
        ELSE IF is_note(e0) /\ is_note_off(e0)
        THEN IF note_off_matched(used, note)
             THEN [ emit |-> TRUE, e |-> e,
                    timestamp |-> IF shifted > trig.tick_end THEN trig.tick_end ELSE shifted,
                    used |-> [used EXCEPT ![note] = @ - 1] ]
             ELSE skip
        ELSE IF shifted >= trig.tick_end /\ ~ is_note(e0) THEN skip
        ELSE [ emit |-> TRUE, e |-> e, timestamp |-> shifted, used |-> used ]

\* The notes the pattern holds: the entries of note_is_used[] that are read.
PatternNotes == { m_events[k].d0 : k \in 1 .. Len(m_events) }

\* song_fill_track up to its loop over the triggers; for a pattern that is
\* not exportable, the whole call.
SongFillTrackBegin(track, standalone, w) ==
    /\ pc = "idle"
    /\ IF is_exportable
       THEN LET number == IF standalone THEN fill_seq_number(track, w) ELSE << >>
                name == IF standalone THEN fill_seq_name(m_info.name, w) ELSE << >>
            IN  /\ m_bytes' = number \o name
                /\ emitted' =
                    IF standalone
                    THEN << MetaEntry(0, EVENT_META_SEQ_NUMBER, 0),
                            MetaEntry(Len(number), EVENT_META_TRACK_NAME, 0) >>
                    ELSE << >>
                /\ pc' = "song_triggers"
                /\ result' = result
       ELSE /\ pc' = "idle"
            /\ result' = FALSE
            /\ UNCHANGED << m_bytes, emitted >>
    /\ loc' = [ fn |-> "song_fill_track", calls |-> loc.calls + 1, track |-> track,
                standalone |-> standalone, trigs |-> m_triggers, t |-> 1, last_ts |-> 0,
                len |-> 0, time_offset |-> 0, times_played |-> 0, p |-> 0, j |-> 1,
                prev_timestamp |-> 0, note_is_used |-> [n \in PatternNotes |-> 0],
                previous |-> PreviousCall ]
    /\ UNCHANGED << patternVars, ub, arg >>

\* song_fill_seq_event up to its loops, for the next trigger.  A pattern
\* length of 0 makes the % and / undefined: the build either traps or goes
\* on with x % 0 = x and x / 0 = 0.
SongFillSeqEventBegin ==
    /\ pc = "song_triggers"
    /\ loc.t <= Len(loc.trigs)
    /\ LET trig == loc.trigs[loc.t]
           len == m_length
           enter(time_offset, times_played) ==
               /\ loc' = [loc EXCEPT !.len = len, !.time_offset = time_offset,
                                     !.times_played = times_played, !.p = 0, !.j = 1,
                                     !.prev_timestamp = loc.last_ts,
                                     !.note_is_used = [n \in PatternNotes |-> 0]]
               /\ pc' = "song_events"
       IN  IF len = 0
           THEN /\ ub' = ub \cup {"division by zero"}
                /\ \/ pc' = "crashed" /\ loc' = loc
                   \/ enter(trig.offset, 1)
           ELSE /\ ub' = ub
                /\ enter(song_time_offset(trig, len), song_times_played(trig, len))
    /\ UNCHANGED << patternVars, m_bytes, result, emitted, arg >>

\* One iteration of the loop over the events of the pattern.
SongFillSeqEventStep(w) ==
    /\ pc = "song_events"
    /\ loc.p <= loc.times_played
    /\ loc.j <= Len(m_events)
    /\ LET trig == loc.trigs[loc.t]
           e0 == m_events[loc.j]
           r == song_event(e0, loc.time_offset, trig, loc.note_is_used)
           delta_time == r.timestamp - loc.prev_timestamp
       IN  IF r.emit
           THEN /\ m_bytes' = m_bytes \o add_event(r.e, delta_time, w)
                /\ emitted' = Append(emitted,
                        EventEntry(r.e, delta_time, r.timestamp, loc.t,
                                   e0.timestamp + loc.time_offset, get_note(e0)))
                /\ loc' = [loc EXCEPT !.j = loc.j + 1, !.prev_timestamp = r.timestamp,
                                      !.note_is_used = r.used]
           ELSE /\ loc' = [loc EXCEPT !.j = loc.j + 1]
                /\ UNCHANGED << m_bytes, emitted >>
    /\ UNCHANGED << patternVars, pc, result, ub, arg >>

\* The end of a replay pass: the next pass a pattern length later, or after
\* the last pass the return of prev_timestamp to the loop over the triggers.
SongFillSeqEventNextPass ==
    /\ pc = "song_events"
    /\ loc.p <= loc.times_played
    /\ loc.j > Len(m_events)
    /\ IF loc.p + 1 <= loc.times_played
       THEN /\ loc' = [loc EXCEPT !.p = loc.p + 1, !.j = 1,
                                  !.time_offset = loc.time_offset + loc.len]
            /\ pc' = pc
       ELSE /\ loc' = [loc EXCEPT !.p = loc.p + 1, !.last_ts = loc.prev_timestamp,
                                  !.t = loc.t + 1]
            /\ pc' = "song_triggers"
    /\ UNCHANGED << patternVars, m_bytes, result, emitted, ub, arg >>

\* The end of the track snapped to the start of the next measure.
song_seqend_next_measure(tick_end, measticks) ==
    IF measticks > 0 THEN tick_end + measticks - c_mod(tick_end, measticks) ELSE tick_end

\* The end of the track snapped to the end of the measure.
song_seqend(tick_end, measticks) ==
    IF measticks > 0
    THEN LET remainder == c_mod(tick_end, measticks)
         IN  IF remainder # measticks - 1
             THEN tick_end + measticks - remainder - 1 ELSE tick_end
    ELSE tick_end

\* track::song_fill_seq_trigger: the bytes written.
song_fill_seq_trigger(trig, length, prev_timestamp, w) ==
    put_seqspec(c_triggers_ex, trigger_datasize(c_triggers_ex), w)
        \o add_long(0) \o add_long(trig.tick_end) \o add_long(0)
        \o fill_proprietary(w)
        \o fill_meta_track_end(length - prev_timestamp, w)

\* song_fill_track after its loop over the triggers.  back() of an empty
\* list is undefined: the build traps or reads some trigger.
SongFillTrackEnd(w) ==
    /\ pc = "song_triggers"
    /\ loc.t > Len(loc.trigs)
    /\ LET finish(ender) ==
               LET seqend == song_seqend(ender.tick_end, measures_to_ticks)
                   head == put_seqspec(c_triggers_ex, trigger_datasize(c_triggers_ex), w)
                           \o add_long(0) \o add_long(ender.tick_end) \o add_long(0)
                           \o fill_proprietary(w)
               IN  /\ m_bytes' = m_bytes
                        \o song_fill_seq_trigger(ender, seqend, loc.last_ts, w)
                   /\ emitted' = emitted
                        \o << SeqSpecEntry(Len(m_bytes), c_triggers_ex),
                              MetaEntry(Len(m_bytes) + Len(head), EVENT_META_END_OF_TRACK,
                                        seqend - loc.last_ts) >>
                   /\ result' = TRUE
                   /\ pc' = "idle"
       IN  IF Len(loc.trigs) = 0
           THEN /\ ub' = ub \cup {"back() of an empty list"}
                /\ \/ pc' = "crashed" /\ UNCHANGED << m_bytes, emitted, result >>
                   \/ \E tick_end \in {0, MaxSongTick} : finish(Trigger(0, tick_end, 0, 0))
           ELSE /\ ub' = ub
                /\ finish(loc.trigs[Len(loc.trigs)])
    /\ UNCHANGED << patternVars, loc, arg >>

\* sequence::set_song_mute: the pattern is muted between two exports.
SetSongMute(mute) ==
    /\ pc = "idle"
    /\ m_song_mute # mute
    /\ m_song_mute' = mute
    /\ UNCHANGED << m_events, m_length, m_triggers, m_info, settings, m_bytes, pc, loc,
                    result, emitted, ub, arg >>

(***************************************************************************)
(* The patterns given to the song export: up to MaxEvents events of two    *)
(* notes, in any order, replayed by one trigger, or one event replayed by  *)
(* two triggers; the triggers are sorted by start and do not overlap.      *)
(***************************************************************************)
SongEventPool ==
    { Event(t, st, n) :
        t \in 0 .. 1, st \in {EVENT_NOTE_ON, EVENT_NOTE_OFF}, n \in {60, 127} }
    \cup { Event(t, st, 60) : t \in 0 .. 1, st \in {EVENT_AFTERTOUCH, EVENT_CONTROL_CHANGE} }

SongTriggerPool ==
    { Trigger(s, e, o, tr) :
        s \in 0 .. MaxSongTick, e \in 0 .. MaxSongTick, o \in 0 .. 1, tr \in {0, 1} }

SongTriggers == { t \in SongTriggerPool : t.tick_start <= t.tick_end }

SongCases ==
    { << evs, trigs >> :
        evs \in SeqsUpTo(SongEventPool, MaxEvents),
        trigs \in { << >> } \cup { << t >> : t \in SongTriggers } }
    \cup
    { << evs, << c[1], c[2] >> >> :
        evs \in SeqsUpTo(SongEventPool, 1),
        c \in { d \in SongTriggers \X SongTriggers : d[1].tick_end < d[2].tick_start } }

MuteInputs == {TRUE}

InitSong ==
    /\ \E c \in SongCases : m_events = c[1] /\ m_triggers = c[2]
    /\ m_length \in {0, MaxLength}
    /\ m_song_mute = FALSE
    /\ m_info = DefaultInfo
    /\ settings = DefaultSettings
    /\ m_bytes = << >>
    /\ pc = "idle"
    /\ loc = Idle
    /\ result = TRUE
    /\ emitted = << >>
    /\ ub = {}
    /\ arg = [v |-> 0, at |-> 0]

SongExportSteps ==
    \/ SongFillSeqEventBegin
    \/ \E w \in ULongWidths : SongFillSeqEventStep(w)
    \/ SongFillSeqEventNextPass
    \/ \E w \in ULongWidths : SongFillTrackEnd(w)

NextSong ==
    \/ /\ loc.calls < MaxSongCalls
       /\ \E standalone \in BOOLEAN, w \in ULongWidths :
                SongFillTrackBegin(1, standalone, w)
    \/ SongExportSteps

SpecSong == InitSong /\ [][NextSong]_vars

(***************************************************************************)
(* The song export called again on the same track, the pattern possibly    *)
(* muted in between: one event at most, one trigger at most.               *)
(***************************************************************************)
InitRepeat ==
    /\ m_events \in SeqsUpTo(SongEventPool, 1)
    /\ m_triggers \in
            { << >> } \cup { << t >> : t \in { u \in SongTriggers : u.transpose = 0 } }
    /\ m_length = MaxLength
    /\ m_song_mute = FALSE
    /\ m_info = DefaultInfo
    /\ settings = DefaultSettings
    /\ m_bytes = << >>
    /\ pc = "idle"
    /\ loc = Idle
    /\ result = TRUE
    /\ emitted = << >>
    /\ ub = {}
    /\ arg = [v |-> 0, at |-> 0]

NextRepeat ==
    \/ /\ loc.calls < MaxRepeatCalls
       /\ \E standalone \in BOOLEAN, w \in ULongWidths :
                SongFillTrackBegin(1, standalone, w)
    \/ SongExportSteps
    \/ \E mute \in MuteInputs : SetSongMute(mute)

SpecRepeat == InitRepeat /\ [][NextRepeat]_vars

(***************************************************************************)
(* The phase arithmetic of song_fill_seq_event on its own: one control     *)
(* change replayed by one trigger of one tick, over every start, offset    *)
(* and pattern length up to the bounds, and the trigger of 100 to 300 with *)
(* the offset 50 on a pattern of 192 ticks.                                *)
(***************************************************************************)
PhaseCases ==
    { << Trigger(s, s, o, 0), len >> :
        s \in 0 .. MaxPhaseTick, o \in 0 .. MaxPhaseTick, len \in 1 .. MaxPhaseLength }
    \cup { << Trigger(100, 300, 50, 0), 192 >> }

InitPhase ==
    /\ m_events = << Event(0, EVENT_CONTROL_CHANGE, 60) >>
    /\ \E c \in PhaseCases : m_triggers = << c[1] >> /\ m_length = c[2]
    /\ m_song_mute = FALSE
    /\ m_info = DefaultInfo
    /\ settings = DefaultSettings
    /\ m_bytes = << >>
    /\ pc = "idle"
    /\ loc = Idle
    /\ result = TRUE
    /\ emitted = << >>
    /\ ub = {}
    /\ arg = [v |-> 0, at |-> 0]

NextPhase ==
    \/ /\ loc.calls < MaxSongCalls
       /\ \E w \in ULongWidths : SongFillTrackBegin(1, FALSE, w)
    \/ SongExportSteps

SpecPhase == InitPhase /\ [][NextPhase]_vars

\* C3: for a pattern length len > 0 the time offset of the first replay
\* pass is tick_start + (offset mod len) - (tick_start mod len), less len
\* exactly when (offset mod len) > (tick_start mod len); it lies in
\* (tick_start - len, tick_start], it is congruent to the offset modulo len,
\* and for len = 192, tick_start = 100, offset = 50 it is 50.
TimeOffsetPhase ==
    (pc = "song_events" /\ loc.p = 0 /\ m_length > 0) =>
        LET trig == loc.trigs[loc.t]
            len == m_length
            trig_offset == trig.offset % len
            start_offset == trig.tick_start % len
            time_offset == loc.time_offset
        IN  /\ time_offset = trig.tick_start + trig_offset - start_offset
                                - (IF trig_offset > start_offset THEN len ELSE 0)
            /\ trig.tick_start - len < time_offset
            /\ time_offset <= trig.tick_start
            /\ (time_offset - trig.offset) % len = 0
            /\ (len = 192 /\ trig.tick_start = 100 /\ trig.offset = 50) => time_offset = 50

\* The first pass over the 192-tick pattern for the trigger starting at 100
\* with the offset 50.
TimeOffsetPhaseWitness ==
    /\ pc = "song_events"
    /\ loc.p = 0
    /\ m_length = 192
    /\ loc.trigs[loc.t].tick_start = 100
    /\ loc.trigs[loc.t].offset = 50
    /\ loc.time_offset = 50

(***************************************************************************)
(* What the song export has written, read from the history of the call.    *)
(***************************************************************************)
InSongExport == loc.fn = "song_fill_track"

SongEventEntries == { k \in 1 .. Len(emitted) : emitted[k].kind = "event" }

\* The note-ons and note-offs of the pattern note n among the first k
\* entries written for the trigger t.
NoteOnsWritten(t, n, k) ==
    Cardinality({ i \in SongEventEntries :
        /\ i <= k
        /\ emitted[i].trig = t
        /\ emitted[i].pnote = n
        /\ mask_status(emitted[i].status) = EVENT_NOTE_ON })

NoteOffsWritten(t, n, k) ==
    Cardinality({ i \in SongEventEntries :
        /\ i <= k
        /\ emitted[i].trig = t
        /\ emitted[i].pnote = n
        /\ mask_status(emitted[i].status) = EVENT_NOTE_OFF })

\* C4: a note-off is written only while the open count of its note is > 0
\* and writing it lowers the count by one: in every prefix of what one
\* trigger wrote the note-offs of a note never outnumber its note-ons, the
\* counts are never negative, and every note-off written carries the
\* smaller of its shifted timestamp and the trigger's tick_end.
OpenCountContract ==
    InSongExport =>
        /\ \A n \in DOMAIN loc.note_is_used : loc.note_is_used[n] >= 0
        /\ pc = "song_events" =>
              \A n \in DOMAIN loc.note_is_used :
                  loc.note_is_used[n] =
                      NoteOnsWritten(loc.t, n, Len(emitted))
                          - NoteOffsWritten(loc.t, n, Len(emitted))
        /\ \A k \in SongEventEntries :
              mask_status(emitted[k].status) = EVENT_NOTE_OFF =>
                  LET x == emitted[k]
                      tick_end == loc.trigs[x.trig].tick_end
                  IN  /\ NoteOnsWritten(x.trig, x.pnote, k - 1)
                            - NoteOffsWritten(x.trig, x.pnote, k - 1) > 0
                      /\ x.timestamp = IF x.shifted > tick_end THEN tick_end ELSE x.shifted

\* A pattern of a note-off followed by the note-on of the same note, replayed
\* from the trigger's start: the note-off of the first pass is an orphan, and
\* the last one written lies past the trigger's end and is clipped to it.
OpenCountContractWitness ==
    /\ InSongExport
    /\ pc = "idle"
    /\ ub = {}
    /\ Len(m_events) = 2
    /\ is_note_off(m_events[1])
    /\ m_events[1].timestamp = 0
    /\ is_note_on(m_events[2])
    /\ m_events[2].d0 = m_events[1].d0
    /\ Len(loc.trigs) = 1
    /\ loc.trigs[1].offset % m_length = loc.trigs[1].tick_start % m_length
    /\ \E k \in SongEventEntries :
          /\ mask_status(emitted[k].status) = EVENT_NOTE_OFF
          /\ emitted[k].shifted > loc.trigs[1].tick_end
          /\ emitted[k].timestamp = loc.trigs[1].tick_end

\* C5: no event is written whose shifted timestamp is before the trigger's
\* tick_start, no note-on is written whose shifted timestamp is after the
\* trigger's tick_end, and a note-on exactly at tick_end is written and
\* counted as open.
TriggerWindowForNoteOns ==
    /\ [](InSongExport =>
            \A k \in SongEventEntries :
                LET x == emitted[k]
                    trig == loc.trigs[x.trig]
                IN  /\ x.shifted >= trig.tick_start
                    /\ mask_status(x.status) = EVENT_NOTE_ON => x.shifted <= trig.tick_end)
    /\ [][(/\ pc = "song_events"
           /\ loc.j <= Len(m_events)
           /\ is_note_on(m_events[loc.j])
           /\ m_events[loc.j].timestamp + loc.time_offset = loc.trigs[loc.t].tick_end)
          => /\ Len(emitted') = Len(emitted) + 1
             /\ emitted'[Len(emitted')].shifted = loc.trigs[loc.t].tick_end
             /\ mask_status(emitted'[Len(emitted')].status) = EVENT_NOTE_ON
             /\ loc'.note_is_used[m_events[loc.j].d0]
                    = loc.note_is_used[m_events[loc.j].d0] + 1]_vars

\* A note-on written exactly at the end of a trigger that starts after tick
\* 0 and lasts more than one tick, from a pattern whose first event lies
\* before the trigger's start in the first pass.
TriggerWindowForNoteOnsWitness ==
    /\ InSongExport
    /\ pc = "idle"
    /\ ub = {}
    /\ Len(loc.trigs) = 1
    /\ loc.trigs[1].tick_start > 0
    /\ loc.trigs[1].tick_end > loc.trigs[1].tick_start
    /\ Len(m_events) = 2
    /\ m_events[1].timestamp + song_time_offset(loc.trigs[1], m_length)
            < loc.trigs[1].tick_start
    /\ \E k \in SongEventEntries :
          /\ mask_status(emitted[k].status) = EVENT_NOTE_ON
          /\ emitted[k].shifted = loc.trigs[1].tick_end

\* C6: no event other than a note-on or a note-off is written with a
\* timestamp at or past the trigger's tick_end.
NonNotesDroppedAtTriggerEnd ==
    InSongExport =>
        \A k \in SongEventEntries :
            mask_status(emitted[k].status) \notin {EVENT_NOTE_ON, EVENT_NOTE_OFF} =>
                emitted[k].timestamp < loc.trigs[emitted[k].trig].tick_end

\* C7: song_fill_track on a pattern that is song-muted or has no trigger
\* returns false and leaves the buffer as it was, and no export ever reads
\* back() of an empty trigger list.
NotExportableIsNoOp ==
    /\ []("back() of an empty list" \notin ub)
    /\ [][(/\ pc = "idle"
           /\ loc'.calls = loc.calls + 1
           /\ (m_song_mute \/ Len(m_triggers) = 0))
          => /\ result' = FALSE
             /\ m_bytes' = m_bytes
             /\ pc' = "idle"]_vars

\* The second call, on the pattern muted after an export that filled the
\* buffer.
NotExportableIsNoOpWitness ==
    /\ pc = "idle"
    /\ InSongExport
    /\ loc.calls = 2
    /\ m_song_mute
    /\ Len(m_triggers) > 0
    /\ result = FALSE
    /\ Len(m_bytes) > 0

\* C8: the song export evaluates % len and / len on the pattern length only
\* when len > 0.
PatternLengthNeverZeroDivisor == "division by zero" \notin ub

\* The trigger record the export ends with, for the trigger list trigs.
FlattenedTriggerRecord(trigs) ==
    << 0, EVENT_MIDI_META, EVENT_META_SEQSPEC, 16 >>
        \o add_long(c_triggers_ex)
        \o add_long(0) \o add_long(trigs[Len(trigs)].tick_end) \o add_long(0)

\* C9: a finished song export has written exactly one trigger record, under
\* c_triggers_ex, with start 0, offset 0 and the last trigger's tick_end as
\* its end, and no event written has a timestamp past that end.
OneFlattenedTrigger ==
    (InSongExport /\ pc = "idle" /\ result = TRUE) =>
        LET records == { k \in 1 .. Len(emitted) : emitted[k].kind = "seqspec" }
            record == FlattenedTriggerRecord(loc.trigs)
        IN  /\ Cardinality(records) = 1
            /\ \A k \in records :
                  /\ emitted[k].tag = c_triggers_ex
                  /\ Len(m_bytes) >= emitted[k].at + Len(record)
                  /\ SubSeq(m_bytes, emitted[k].at + 1, emitted[k].at + Len(record)) = record
            /\ \A k \in SongEventEntries :
                  emitted[k].timestamp <= loc.trigs[Len(loc.trigs)].tick_end

(***************************************************************************)
(* The codec on its own: add_varinum called on values around the group     *)
(* boundaries 2^7, 2^14, 2^21 and 2^28, appending to the same buffer.      *)
(***************************************************************************)
VarintBoundaries == {0, 128, 16384, 2097152, 268435456}

VarintInputs ==
    { x \in UNION { (b - VarintWindow - 1) .. (b + VarintWindow) : b \in VarintBoundaries } :
        x >= 0 /\ x < 268435456 }

NoPattern ==
    /\ m_events = << >>
    /\ m_length = 0
    /\ m_triggers = << >>
    /\ m_song_mute = FALSE
    /\ m_info = DefaultInfo
    /\ settings = DefaultSettings

InitVarint ==
    /\ NoPattern
    /\ m_bytes = << >>
    /\ pc = "idle"
    /\ loc = [calls |-> 0]
    /\ result = TRUE
    /\ emitted = << >>
    /\ ub = {}
    /\ arg = [v |-> 0, at |-> 0]

CallAddVarinum(v, w) ==
    /\ loc.calls < MaxVarintCalls
    /\ m_bytes' = m_bytes \o add_varinum(v, w)
    /\ arg' = [v |-> v, at |-> Len(m_bytes)]
    /\ loc' = [calls |-> loc.calls + 1]
    /\ UNCHANGED << patternVars, pc, result, emitted, ub >>

NextVarint == \E v \in VarintInputs, w \in ULongWidths : CallAddVarinum(v, w)

SpecVarint == InitVarint /\ [][NextVarint]_vars

VarintGroupsNeeded(v) ==
    IF v < 128 THEN 1 ELSE IF v < 16384 THEN 2 ELSE IF v < 2097152 THEN 3 ELSE 4

ChannelEvent(timestamp, status, channel, d0) ==
    [ timestamp |-> timestamp, status |-> status, channel |-> channel,
      d0 |-> d0, d1 |-> 100, sysex |-> << >> ]

\* A meta event (channel holds its type) or a SysEx event with its data.
ExEvent(timestamp, status, type, data) ==
    [ timestamp |-> timestamp, status |-> status, channel |-> type,
      d0 |-> 0, d1 |-> 0, sysex |-> data ]

MetaEventPool ==
    { ChannelEvent(1, EVENT_NOTE_ON, 5, 60),
      ChannelEvent(1, EVENT_PROGRAM_CHANGE, 5, 7),
      ExEvent(0, EVENT_MIDI_META, EVENT_META_SET_TEMPO, << 7, 161, 32 >>),
      ExEvent(1, EVENT_MIDI_SYSEX, 0, << 67, 18, 0, 247 >>),
      ExEvent(1, EVENT_MIDI_SYSEX_END, 0, << 67, 18, 247 >>) }

MetaInfo(key, color, channel, free, others) ==
    [ DefaultInfo EXCEPT
        !.musical_key = key, !.color = color,
        !.midi_channel = channel, !.free_channel = free,
        !.midi_bus = IF others THEN 2 ELSE 0,
        !.beats_per_bar = IF others THEN 3 ELSE 4,
        !.beat_width = IF others THEN 8 ELSE 4,
        !.musical_scale = IF others THEN 1 ELSE c_scales_off,
        !.background_sequence = IF others THEN 1 ELSE c_seq_limit,
        !.transposable = ~ others,
        !.loop_count_max = IF others THEN 300 ELSE 0 ]

MetaInfos ==
    { MetaInfo(key, color, channel, free, others) :
        key \in {c_key_of_C, 5}, color \in {c_seq_color_none, 3},
        channel \in {0, 9, null_channel}, free \in BOOLEAN, others \in BOOLEAN }

MetaSettings ==
    [ global_seq_feature : BOOLEAN, save_old_triggers : BOOLEAN ]

MetaTriggerLists ==
    FillTriggerLists
        \cup { [ k \in 1 .. MaxTriggers |-> Trigger(2 * k, 2 * k + 1, 0, 1) ] }
        \cup { << Trigger(0, 1, 0, 0), Trigger(2, 3, 1, 1) >> }

InitMeta ==
    /\ m_events \in SeqsUpTo(MetaEventPool, 1)
    /\ m_length = MaxLength
    /\ m_triggers \in MetaTriggerLists
    /\ m_song_mute = FALSE
    /\ m_info \in MetaInfos
    /\ settings \in MetaSettings
    /\ m_bytes = << >>
    /\ pc = "idle"
    /\ loc = Idle
    /\ result = TRUE
    /\ emitted = << >>
    /\ ub = {}
    /\ arg = [v |-> 0, at |-> 0]

NextMeta ==
    \/ /\ loc.calls < MaxCalls
       /\ \E doseqspec \in BOOLEAN, w \in ULongWidths : FillBegin(258, doseqspec, w)
    \/ \E w \in ULongWidths : FillEvent(w)
    \/ \E w \in ULongWidths : FillEnd(w)
    \/ /\ loc.calls < MaxCalls
       /\ \E w \in ULongWidths : SongFillTrackBegin(258, TRUE, w)
    \/ SongExportSteps

SpecMeta == InitMeta /\ [][NextMeta]_vars

(***************************************************************************)
(* A reader of SeqSpec blocks: from position at up to position stop it     *)
(* reads delta 0, 0xFF, 0x7F, the declared length, the tag of 4 bytes, and *)
(* takes the rest of the declared length as the payload, whatever the tag. *)
(***************************************************************************)
Misaligned == [ tag |-> -1, payload |-> << >> ]

big_endian(b) == ((b[1] * 256 + b[2]) * 256 + b[3]) * 256 + b[4]

RECURSIVE read_seqspecs(_, _, _)
read_seqspecs(bytes, at, stop) ==
    IF at = stop THEN << >>
    ELSE IF at + 4 > stop \/ bytes[at + 1] # 0 \/ bytes[at + 2] # EVENT_MIDI_META
            \/ bytes[at + 3] # EVENT_META_SEQSPEC
    THEN << Misaligned >>
    ELSE LET len == decode_varint(bytes, at + 3, 0, 0)
             body == at + 3 + len.used
         IN  IF len.value < 4 \/ body + len.value > stop THEN << Misaligned >>
             ELSE << [ tag |-> big_endian(SubSeq(bytes, body + 1, body + 4)),
                       payload |-> SubSeq(bytes, body + 5, body + len.value) ] >>
                  \o read_seqspecs(bytes, body + len.value, stop)

\* A finished export that wrote its SeqSpec blocks, and the blocks read back
\* from the trigger block up to the end of track.
SeqSpecsWritten ==
    /\ pc = "idle"
    /\ loc.fn \in {"fill", "song_fill_track"}
    /\ loc.fn = "fill" => loc.doseqspec
    /\ loc.fn = "song_fill_track" => result = TRUE
    /\ ub = {}

SeqSpecsRead ==
    LET first == CHOOSE k \in CallEntries : emitted[k].kind = "seqspec"
    IN  read_seqspecs(m_bytes, emitted[first].at, emitted[Len(emitted)].at)

PayloadsOf(blocks, tag) ==
    { blocks[k].payload : k \in { j \in 1 .. Len(blocks) : blocks[j].tag = tag } }

\* C13: each of the blocks for buss, time signature, channel, key, scale,
\* background sequence, color and loop count is written only when the
\* pattern's value differs from its default, so none of them is written
\* for a pattern whose values are all the defaults.
DefaultsNotWritten ==
    SeqSpecsWritten =>
        LET blocks == SeqSpecsRead
            written(tag) == PayloadsOf(blocks, tag) # {}
        IN  /\ written(c_midibus) => m_info.midi_bus # DefaultInfo.midi_bus
            /\ written(c_timesig) =>
                  \/ m_info.beats_per_bar # DefaultInfo.beats_per_bar
                  \/ m_info.beat_width # DefaultInfo.beat_width
            /\ written(c_midichannel) => m_info.midi_channel # DefaultInfo.midi_channel
            /\ written(c_musickey) => m_info.musical_key # c_key_of_C
            /\ written(c_musicscale) => m_info.musical_scale # c_scales_off
            /\ written(c_backsequence) => seq_valid(m_info.background_sequence)
            /\ written(c_seq_color) => m_info.color # c_seq_color_none
            /\ written(c_seq_loopcount) => m_info.loop_count_max > 0

\* C14: every SeqSpec block is delta 0, 0xFF, 0x7F, the length of the
\* payload plus 4, the tag, the payload: a reader that skips by the declared
\* length reads block after block up to the end of track, finds the trigger
\* block first, and finds under each tag written the value of the pattern.
SeqSpecRoundTrip ==
    SeqSpecsWritten =>
        LET blocks == SeqSpecsRead
            first == CHOOSE k \in CallEntries : emitted[k].kind = "seqspec"
            value(tag) == PayloadsOf(blocks, tag)
            optional(tag, cond, payload) ==
                value(tag) = IF cond THEN { payload } ELSE {}
        IN  /\ \A k \in 1 .. Len(blocks) : blocks[k] # Misaligned
            /\ Len(blocks) >= 5
            /\ blocks[1].tag = emitted[first].tag
            /\ Len(blocks[1].payload) =
                  IF loc.fn = "song_fill_track" THEN 12
                  ELSE Len(m_triggers) * (IF blocks[1].tag = c_trig_transpose THEN 13 ELSE 12)
            /\ value(c_midibus) = { << m_info.midi_bus >> }
            /\ value(c_timesig) = { << m_info.beats_per_bar, m_info.beat_width >> }
            /\ value(c_midichannel) = { << m_info.midi_channel >> }
            /\ value(c_transpose) = { << IF m_info.transposable THEN 1 ELSE 0 >> }
            /\ optional(c_musickey,
                        ~ settings.global_seq_feature /\ m_info.musical_key # c_key_of_C,
                        << m_info.musical_key >>)
            /\ optional(c_musicscale,
                        ~ settings.global_seq_feature /\ m_info.musical_scale # c_scales_off,
                        << m_info.musical_scale >>)
            /\ optional(c_backsequence,
                        ~ settings.global_seq_feature
                            /\ seq_valid(m_info.background_sequence),
                        add_long(m_info.background_sequence))
            /\ optional(c_seq_color, m_info.color # c_seq_color_none, << m_info.color >>)
            /\ optional(c_seq_loopcount, m_info.loop_count_max > 0,
                        << m_info.loop_count_max \div 256, m_info.loop_count_max % 256 >>)

\* A fill of a pattern with the key 5 and the color 3 whose trigger block
\* declares its length in two bytes.
SeqSpecRoundTripWitness ==
    /\ SeqSpecsWritten
    /\ loc.fn = "fill"
    /\ m_info.musical_key = 5
    /\ m_info.color = 3
    /\ ~ settings.global_seq_feature
    /\ Len(m_triggers) = MaxTriggers
    /\ LET blocks == SeqSpecsRead
       IN  /\ Len(blocks[1].payload) > 127
           /\ PayloadsOf(blocks, c_musickey) = { << 5 >> }
           /\ PayloadsOf(blocks, c_seq_color) = { << 3 >> }

\* The event a step of an export writes, and where its status byte lands.
EventWritten ==
    /\ pc \in {"fill_events", "song_events"}
    /\ Len(emitted') = Len(emitted) + 1
    /\ emitted'[Len(emitted')].kind = "event"

WrittenEvent == IF loc.fn = "fill" THEN loc.evl[loc.i] ELSE m_events[loc.j]

StatusByteWritten ==
    m_bytes'[Len(m_bytes) + decode_varint(m_bytes', Len(m_bytes), 0, 0).used + 1]

\* C15: for an event with a channel the status byte written has the
\* event's status in the high nibble and, in the low nibble, the event's own
\* channel when the pattern is a free-channel pattern or its channel is the
\* null channel, and the pattern's channel otherwise.
ChannelResolution ==
    [][(EventWritten /\ has_channel(WrittenEvent)) =>
            LET e == WrittenEvent
                own == m_info.free_channel \/ m_info.midi_channel = null_channel
            IN  /\ StatusByteWritten \div 16 = e.status \div 16
                /\ StatusByteWritten % 16 = IF own THEN e.channel ELSE m_info.midi_channel
      ]_vars

\* A note-on of channel 5 written on channel 9, the channel of the pattern.
ChannelResolutionWitness ==
    /\ pc = "idle"
    /\ loc.fn = "fill"
    /\ m_info.midi_channel = 9
    /\ ~ m_info.free_channel
    /\ \E k \in CallEventEntries :
          /\ emitted[k].status = EVENT_NOTE_ON
          /\ m_events[1].channel = 5
          /\ m_bytes[emitted[k].at + 2] = EVENT_NOTE_ON + 9

ExportEventPool ==
    { Event(t, st, 60) : t \in 0 .. 1, st \in {EVENT_NOTE_ON, EVENT_NOTE_OFF} }
    \cup { Event(-1, EVENT_CONTROL_CHANGE, 60) }

ExportTriggerLists ==
    { << >> }
    \cup { << Trigger(s, e, 0, tr) >> : s \in 0 .. 1, e \in 1 .. 1, tr \in {0, 1} }

InitExports ==
    /\ m_events \in SeqsUpTo(ExportEventPool, MaxEvents)
    /\ m_length = MaxLength
    /\ m_triggers \in ExportTriggerLists
    /\ m_song_mute = FALSE
    /\ m_info = DefaultInfo
    /\ settings = DefaultSettings
    /\ m_bytes = << >>
    /\ pc = "idle"
    /\ loc = Idle
    /\ result = TRUE
    /\ emitted = << >>
    /\ ub = {}
    /\ arg = [v |-> 0, at |-> 0]

NextExports ==
    \/ /\ loc.calls < MaxRepeatCalls
       /\ \E doseqspec \in BOOLEAN, w \in ULongWidths : FillBegin(258, doseqspec, w)
    \/ \E w \in ULongWidths : FillEvent(w)
    \/ \E w \in ULongWidths : FillEnd(w)
    \/ /\ loc.calls < MaxRepeatCalls
       /\ \E standalone \in BOOLEAN, w \in ULongWidths :
                SongFillTrackBegin(258, standalone, w)
    \/ SongExportSteps

SpecExports == InitExports /\ [][NextExports]_vars

\* The arguments of the last call.
CallArgs ==
    IF loc.fn = "fill" THEN << loc.track, loc.doseqspec >>
    ELSE IF loc.fn = "song_fill_track" THEN << loc.track, loc.standalone >>
    ELSE << >>

\* The last call is over, and it was the same call as the one before it.
\* A negative delta-time is left out: its bytes depend on the width of
\* unsigned long, which is one and the same for the two calls of a run.
SameCallAgain ==
    /\ pc = "idle"
    /\ loc.fn \in {"fill", "song_fill_track"}
    /\ loc.previous.fn = loc.fn
    /\ loc.previous.args = CallArgs
    /\ \A k \in 1 .. Len(emitted) : emitted[k].delta >= 0

\* C17: an export called a second time on the same track object, with the
\* pattern unchanged, leaves the buffer equal to the output of the first
\* call, not to the two outputs one after the other.
SecondExportSameBuffer == SameCallAgain => m_bytes = loc.previous.bytes

\* C18: the exports leave the pattern's event list and trigger list as they
\* were: no step of fill or song_fill_track changes them, the sort, the
\* transposition and the clipping being applied to copies.
PatternOnlyBorrowed ==
    [][m_events' = m_events /\ m_triggers' = m_triggers /\ m_length' = m_length]_vars

\* After a fill of a list that was not in order, a song export under a
\* transposed trigger has written a transposed note and a clipped note-off;
\* the pattern still holds its events out of order, with their own notes.
PatternOnlyBorrowedWitness ==
    /\ pc = "idle"
    /\ loc.fn = "song_fill_track"
    /\ loc.previous.fn = "fill"
    /\ result = TRUE
    /\ sort(m_events) # m_events
    /\ trigger_transposed(m_triggers[1])
    /\ \E k \in CallEventEntries :
          /\ emitted[k].note # emitted[k].pnote
          /\ emitted[k].timestamp # emitted[k].shifted
    /\ \A j \in 1 .. Len(m_events) : m_events[j].d0 = 60

EndOfTrackEntries ==
    { k \in CallEntries :
        emitted[k].kind = "meta" /\ emitted[k].note = EVENT_META_END_OF_TRACK }

\* C19: every export that completes (fill always, song_fill_track when it
\* returns true) writes the end of track once, as its last step: the buffer
\* then ends with the delta-time followed by 0xFF 0x2F 0x00, and the call
\* has written no other end of track.
EndOfTrackOnceAndLast ==
    /\ [](pc \notin {"idle", "crashed"} => EndOfTrackEntries = {})
    /\ [][(pc # "idle" /\ pc' = "idle") =>
            LET x == emitted'[Len(emitted')]
                delta == decode_varint(m_bytes', x.at, 0, 0)
            IN  /\ x.kind = "meta"
                /\ x.note = EVENT_META_END_OF_TRACK
                /\ delta.value = x.delta
                /\ SubSeq(m_bytes', x.at + delta.used + 1, Len(m_bytes'))
                      = << EVENT_MIDI_META, EVENT_META_END_OF_TRACK, 0 >>
                /\ Cardinality(EndOfTrackEntries') = 1
         ]_vars

\* A song export that returned true after a fill that was cut short by a
\* negative delta-time: both ended with the end of track.
EndOfTrackOnceAndLastWitness ==
    /\ pc = "idle"
    /\ loc.fn = "song_fill_track"
    /\ result = TRUE
    /\ loc.previous.fn = "fill"
    /\ \E k \in 1 .. Len(m_events) : m_events[k].timestamp < 0
    /\ SubSeq(loc.previous.bytes, Len(loc.previous.bytes) - 2, Len(loc.previous.bytes))
          = << EVENT_MIDI_META, EVENT_META_END_OF_TRACK, 0 >>
    /\ SubSeq(m_bytes, Len(m_bytes) - 2, Len(m_bytes))
          = << EVENT_MIDI_META, EVENT_META_END_OF_TRACK, 0 >>

\* C20: a sequence-number event, when written, is the first thing in the
\* track buffer: delta 0, 0xFF 0x00 0x02 and the track number in two bytes,
\* most significant first, before every other event.
SequenceNumberFirst ==
    \A k \in 1 .. Len(emitted) :
        (emitted[k].kind = "meta" /\ emitted[k].note = EVENT_META_SEQ_NUMBER) =>
            /\ emitted[k].at = 0
            /\ SubSeq(m_bytes, 1, 6)
                  = << 0, EVENT_MIDI_META, EVENT_META_SEQ_NUMBER, 2,
                       loc.track \div 256, loc.track % 256 >>
            /\ \A j \in 1 .. Len(emitted) : j # k => emitted[j].at > 0

(***************************************************************************)
(* The trigger block of track::fill.                                       *)
(***************************************************************************)
\* C21: in fill with doseqspec true the variant of the trigger block is
\* chosen once for the track: the tag is c_trig_transpose and every record
\* is start, end, offset (4 bytes each, most significant first) and one
\* transpose byte exactly when old-trigger saving is off and some trigger is
\* transposed; otherwise the tag is c_triggers_ex and no record has the
\* byte.  The records of one track all have the same size.
TriggerVariantOncePerTrack ==
    (SeqSpecsWritten /\ loc.fn = "fill") =>
        LET block == SeqSpecsRead[1]
            withbyte ==
                /\ ~ settings.save_old_triggers
                /\ \E k \in 1 .. Len(m_triggers) : m_triggers[k].transpose # 0
            size == IF withbyte THEN 13 ELSE 12
            record(k) == SubSeq(block.payload, (k - 1) * size + 1, k * size)
        IN  /\ block.tag = IF withbyte THEN c_trig_transpose ELSE c_triggers_ex
            /\ Len(block.payload) = Len(m_triggers) * size
            /\ \A k \in 1 .. Len(m_triggers) :
                  LET t == m_triggers[k]
                  IN  /\ big_endian(SubSeq(record(k), 1, 4)) = t.tick_start
                      /\ big_endian(SubSeq(record(k), 5, 8)) = t.tick_end
                      /\ big_endian(SubSeq(record(k), 9, 12)) = t.offset
                      /\ withbyte =>
                            record(k)[13] = IF t.transpose = 0 THEN 0 ELSE 64 + t.transpose

\* A fill, old-trigger saving off, of a pattern with one trigger that is
\* not transposed and one that is: two records of 13 bytes, the first with
\* a transpose byte of 0.
TriggerVariantOncePerTrackWitness ==
    /\ SeqSpecsWritten
    /\ loc.fn = "fill"
    /\ ~ settings.save_old_triggers
    /\ Len(m_triggers) = 2
    /\ m_triggers[1].transpose = 0
    /\ m_triggers[2].transpose # 0
    /\ SeqSpecsRead[1].tag = c_trig_transpose
    /\ Len(SeqSpecsRead[1].payload) = 26
    /\ SeqSpecsRead[1].payload[13] = 0
    /\ SeqSpecsRead[1].payload[26] = 65

(***************************************************************************)
(* SysEx packets in a track: each is written by add_ex_event as delta,     *)
(* 0xF0 or 0xF7, length, data, and read back as the documentation of the   *)
(* file format reads it, with a flag raised inside a multi-packet message. *)
(***************************************************************************)
\* "An F0 without a terminal F7 within the specified length": the last of
\* the bytes counted by the length is the F7 or is not.
sysex_terminated(data) == data # << >> /\ data[Len(data)] = EVENT_MIDI_SYSEX_END

\* What a packet is taken for, given the flag as the packet finds it.
sysex_kind(status, data, multi) ==
    IF status = EVENT_MIDI_SYSEX
    THEN (IF sysex_terminated(data) THEN "single" ELSE "first")
    ELSE IF multi THEN "continuation" ELSE "escape"

\* The flag lowered by every packet that starts with F7.
sysex_multi_lowered_by_any_f7(status, data, multi) ==
    IF status = EVENT_MIDI_SYSEX
    THEN (IF sysex_terminated(data) THEN multi ELSE TRUE)
    ELSE FALSE

\* The flag after a packet: raised by an F0 packet without its terminal F7,
\* lowered by a continuation that ends with F7.
sysex_multi(status, data, multi) ==
    IF status = EVENT_MIDI_SYSEX
    THEN (IF sysex_terminated(data) THEN multi ELSE TRUE)
    ELSE IF multi THEN ~ sysex_terminated(data) ELSE FALSE

\* The packets of the documentation: the three packets of a message sent in
\* pieces, a single message (General MIDI Enable) and an escape sequence
\* (Song Select).
SysExPacketPool ==
    { ExEvent(0, EVENT_MIDI_SYSEX, 0, << 67, 18, 0 >>),
      ExEvent(0, EVENT_MIDI_SYSEX_END, 0, << 67, 18, 0, 67, 18, 0 >>),
      ExEvent(0, EVENT_MIDI_SYSEX_END, 0, << 67, 18, 0, 247 >>),
      ExEvent(0, EVENT_MIDI_SYSEX, 0, << 126, 0, 9, 1, 247 >>),
      ExEvent(0, EVENT_MIDI_SYSEX_END, 0, << 243, 1 >>) }

SysExDeltas == {0, 200}

\* One packet is written by add_ex_event and read back from the buffer:
\* the status after the delta-time, the length, the data.  A packet that
\* starts with F0 comes only outside a multi-packet message ("the first
\* message starts with F0, the next messages have only the SysEx data").
SysExPacket(e, deltatime, w) ==
    /\ pc = "idle"
    /\ loc.fn = "sysex"
    /\ Len(loc.packets) < MaxPackets
    /\ e.status = EVENT_MIDI_SYSEX => ~ loc.multi
    /\ m_bytes' = m_bytes \o add_ex_event(e, deltatime, w)
    /\ LET delta == decode_varint(m_bytes', Len(m_bytes), 0, 0)
           at == Len(m_bytes) + delta.used
           status == m_bytes'[at + 1]
           count == decode_varint(m_bytes', at + 1, 0, 0)
           data == SubSeq(m_bytes', at + 1 + count.used + 1, at + 1 + count.used + count.value)
       IN  loc' = [loc EXCEPT
                     !.multi = sysex_multi(status, data, loc.multi),
                     !.packets = Append(loc.packets,
                         [ at |-> at, stop |-> Len(m_bytes'),
                           kind |-> sysex_kind(status, data, loc.multi) ])]
    /\ UNCHANGED << patternVars, pc, result, emitted, ub, arg >>

InitSysEx ==
    /\ m_events = << >>
    /\ m_length = MaxLength
    /\ m_triggers = << >>
    /\ m_song_mute = FALSE
    /\ m_info = DefaultInfo
    /\ settings = DefaultSettings
    /\ m_bytes = << >>
    /\ pc = "idle"
    /\ loc = [ fn |-> "sysex", calls |-> 0, multi |-> FALSE, packets |-> << >> ]
    /\ result = TRUE
    /\ emitted = << >>
    /\ ub = {}
    /\ arg = [v |-> 0, at |-> 0]

NextSysEx ==
    \E e \in SysExPacketPool, deltatime \in SysExDeltas, w \in ULongWidths :
        SysExPacket(e, deltatime, w)

SpecSysEx == InitSysEx /\ [][NextSysEx]_vars

\* Packet k of the buffer: its first byte and its last.
PacketStart(k) == m_bytes[loc.packets[k].at + 1]

PacketEnd(k) == m_bytes[loc.packets[k].stop]

\* Before packet k an F0 packet did not end with F7, and no packet between
\* that one and packet k ended with F7.
MessageOpenBefore(k) ==
    \E i \in 1 .. k - 1 :
        /\ PacketStart(i) = EVENT_MIDI_SYSEX
        /\ PacketEnd(i) # EVENT_MIDI_SYSEX_END
        /\ \A j \in i + 1 .. k - 1 : PacketEnd(j) # EVENT_MIDI_SYSEX_END

action_in_progress_never == FALSE

\* eventlist::action_in_progress().
action_in_progress == loc.m_action_in_progress

\* The editor enters sort() or clear(): the flag is raised.
MutateBegin(what) ==
    /\ pc = "idle"
    /\ loc.fn = "threads"
    /\ loc.editor = "idle"
    /\ loc' = [loc EXCEPT !.editor = what, !.m_action_in_progress = TRUE,
                           !.begun_since_read = TRUE]
    /\ UNCHANGED << patternVars, m_bytes, pc, result, emitted, ub, arg >>

\* The editor leaves sort() or clear(): the list is changed, the flag lowered.
MutateEnd ==
    /\ pc = "idle"
    /\ loc.fn = "threads"
    /\ loc.editor \in {"sort", "clear"}
    /\ m_events' = IF loc.editor = "sort" THEN sort(m_events) ELSE << >>
    /\ loc' = [loc EXCEPT !.editor = "idle", !.m_action_in_progress = FALSE]
    /\ UNCHANGED << m_length, m_triggers, m_song_mute, m_info, settings,
                    m_bytes, pc, result, emitted, ub, arg >>

\* The consumer reads the flag; it goes on to iterate only on false.
ConsumerRead ==
    /\ pc = "idle"
    /\ loc.fn = "threads"
    /\ loc.consumer = "idle"
    /\ loc' = [loc EXCEPT !.seen = action_in_progress,
                           !.consumer = IF action_in_progress THEN "idle" ELSE "ready",
                           !.begun_since_read = FALSE]
    /\ UNCHANGED << patternVars, m_bytes, pc, result, emitted, ub, arg >>

\* The consumer takes begin() of the list.
ConsumerBegin ==
    /\ pc = "idle"
    /\ loc.fn = "threads"
    /\ loc.consumer = "ready"
    /\ loc' = [loc EXCEPT !.consumer = "iterating", !.i = 1]
    /\ UNCHANGED << patternVars, m_bytes, pc, result, emitted, ub, arg >>

\* The consumer reads one event, or finds the end of the list.  A read
\* while the editor is inside sort() or clear() is a data race.
ConsumerStep ==
    /\ pc = "idle"
    /\ loc.fn = "threads"
    /\ loc.consumer = "iterating"
    /\ loc' = IF loc.i > Len(m_events)
              THEN [loc EXCEPT !.consumer = "idle"]
              ELSE [loc EXCEPT !.i = loc.i + 1]
    /\ ub' = IF loc.editor # "idle" THEN ub \cup {"iterate_during_" \o loc.editor} ELSE ub
    /\ UNCHANGED << patternVars, m_bytes, pc, result, emitted, arg >>

InitThreads ==
    /\ m_events \in SeqsUpTo(ExportEventPool, MaxEvents)
    /\ m_length = MaxLength
    /\ m_triggers = << >>
    /\ m_song_mute = FALSE
    /\ m_info = DefaultInfo
    /\ settings = DefaultSettings
    /\ m_bytes = << >>
    /\ pc = "idle"
    /\ loc = [ fn |-> "threads", calls |-> 0, editor |-> "idle", consumer |-> "idle",
               m_action_in_progress |-> FALSE, seen |-> FALSE, i |-> 1,
               begun_since_read |-> FALSE ]
    /\ result = TRUE
    /\ emitted = << >>
    /\ ub = {}
    /\ arg = [v |-> 0, at |-> 0]

NextThreads ==
    \/ \E what \in {"sort", "clear"} : MutateBegin(what)
    \/ MutateEnd
    \/ ConsumerRead
    \/ ConsumerBegin
    \/ ConsumerStep

SpecThreads == InitThreads /\ [][NextThreads]_vars

\* The consumer is walking the list while the editor is inside sort() or
\* clear().
IterationOverlapsMutation ==
    /\ loc.fn = "threads"
    /\ loc.consumer = "iterating"
    /\ loc.editor # "idle"

\* C23: the action-in-progress flag is only a hint.  It is raised all
\* through a sort or a clear, and a consumer starts to iterate only after
\* reading it as false; still its iteration can overlap a mutation, namely
\* one that began after the flag was read.  Nothing else lets them overlap,
\* and nothing keeps them from it.
FlagIsAdvisoryOnly ==
    loc.fn = "threads" =>
        /\ loc.editor # "idle" <=> loc.m_action_in_progress
        /\ loc.consumer \in {"ready", "iterating"} => ~ loc.seen
        /\ IterationOverlapsMutation => loc.begun_since_read

\* The consumer, having read the flag as false, is in the middle of a list
\* of two events that the editor has begun to sort, and has already read
\* an event during the sort.
FlagIsAdvisoryOnlyWitness ==
    /\ IterationOverlapsMutation
    /\ ~ loc.seen
    /\ loc.m_action_in_progress
    /\ loc.editor = "sort"
    /\ Len(m_events) = 2
    /\ loc.i = 2
    /\ "iterate_during_sort" \in ub

(***************************************************************************)
(* The song export of well-formed input: a pattern sorted by timestamp     *)
(* with its events inside its length, triggers sorted and disjoint.        *)
(***************************************************************************)
PatternSorted ==
    \A j, k \in 1 .. Len(m_events) :
        j < k => m_events[j].timestamp <= m_events[k].timestamp

PatternInLength ==
    /\ m_length > 0
    /\ \A k \in 1 .. Len(m_events) :
          m_events[k].timestamp >= 0 /\ m_events[k].timestamp < m_length

TriggersDisjoint ==
    /\ \A k \in 1 .. Len(m_triggers) : m_triggers[k].tick_start <= m_triggers[k].tick_end
    /\ \A k \in 1 .. Len(m_triggers) - 1 :
          m_triggers[k].tick_end < m_triggers[k + 1].tick_start

WellFormedSong == InSongExport /\ PatternSorted /\ PatternInLength /\ TriggersDisjoint

\* C24: in song export of a sorted pattern with its events in
\* [0, pattern length), under triggers sorted by start that do not overlap,
\* every delta-time written for an event is >= 0: the timestamps written
\* never go back, within a pass, from pass to pass, from trigger to trigger.
SongDeltasNonNegative ==
    WellFormedSong => \A k \in SongEventEntries : emitted[k].delta >= 0

(***************************************************************************)
(* The end of the exported track: one control change under one trigger     *)
(* that ends at any tick up to MaxPhaseTick, in measures of 4, 3, 1 and 0  *)
(* ticks (time signatures 4/4, 3/4, 3/8, and a beat width of 0).           *)
(***************************************************************************)
SnapInfos ==
    { [ DefaultInfo EXCEPT !.beats_per_bar = ts[1], !.beat_width = ts[2] ] :
        ts \in { << 4, 4 >>, << 3, 4 >>, << 3, 8 >>, << 4, 0 >> } }

InitSnap ==
    /\ m_events = << Event(0, EVENT_CONTROL_CHANGE, 60) >>
    /\ m_length = MaxPhaseLength
    /\ \E s \in 0 .. 1, e \in 1 .. MaxPhaseTick : m_triggers = << Trigger(s, e, 0, 0) >>
    /\ m_song_mute = FALSE
    /\ m_info \in SnapInfos
    /\ settings = DefaultSettings
    /\ m_bytes = << >>
    /\ pc = "idle"
    /\ loc = Idle
    /\ result = TRUE
    /\ emitted = << >>
    /\ ub = {}
    /\ arg = [v |-> 0, at |-> 0]

SpecSnap == InitSnap /\ [][NextPhase]_vars

\* A song export that returned true, and where its end of track lies: the
\* timestamp of the last event written plus the delta-time of the end of
\* track, as the bytes have it.
SongExportDone == pc = "idle" /\ InSongExport /\ result = TRUE /\ ub = {}

EndOfTrackTime ==
    LastTimestampWritten + decode_varint(m_bytes, emitted[Len(emitted)].at, 0, 0).value

FirstReplay(trig, len) ==
    CHOOSE x \in trig.tick_start - len + 1 .. trig.tick_start : (x - trig.offset) % len = 0

\* The pattern events of status st and note n that occur at tick x under
\* the trigger: x = t + time_offset + k * len for some k >= 0.
OccurringAt(trig, st, n, x) ==
    { j \in 1 .. Len(m_events) :
        /\ m_events[j].status = st
        /\ m_events[j].d0 = n
        /\ x >= m_events[j].timestamp + FirstReplay(trig, m_length)
        /\ (x - m_events[j].timestamp - FirstReplay(trig, m_length)) % m_length = 0 }

\* The entries written for trigger t at tick x with status st and note n.
WrittenAt(t, st, n, x) ==
    { i \in SongEventEntries :
        /\ emitted[i].trig = t
        /\ emitted[i].status = st
        /\ emitted[i].pnote = n
        /\ emitted[i].shifted = x }

\* The triggers the running export is done with.
TriggersDone == IF InSongExport /\ pc # "crashed" THEN 1 .. loc.t - 1 ELSE {}

\* C26: the replay passes 0 .. times_played cover the window of the
\* trigger: for a pattern of length len > 0 with its events in [0, len),
\* every occurrence t + time_offset + k * len (k >= 0) in
\* [tick_start, tick_end) of an event that is not a note-on or a note-off
\* is written exactly once, none missed and none written twice.
ReplayCoversWindow ==
    (InSongExport /\ PatternInLength) =>
        \A t \in TriggersDone :
            \A x \in m_triggers[t].tick_start .. m_triggers[t].tick_end - 1 :
                \A j \in 1 .. Len(m_events) :
                    LET e == m_events[j]
                    IN  ~ (is_note_on(e) \/ is_note_off(e)) =>
                            Cardinality(WrittenAt(t, e.status, e.d0, x))
                                = Cardinality(OccurringAt(m_triggers[t], e.status, e.d0, x))

\* A trigger from 0 to 3 with the offset 1 over a pattern of 2 ticks with
\* a control change at tick 1: written at ticks 0 and 2, and only there.
ReplayCoversWindowWitness ==
    /\ InSongExport
    /\ PatternInLength
    /\ 1 \in TriggersDone
    /\ m_triggers[1] = Trigger(0, 3, 1, 0)
    /\ m_events = << Event(1, EVENT_CONTROL_CHANGE, 60) >>
    /\ { emitted[i].shifted : i \in WrittenAt(1, EVENT_CONTROL_CHANGE, 60, 0)
                                  \cup WrittenAt(1, EVENT_CONTROL_CHANGE, 60, 2) } = {0, 2}
    /\ Cardinality({ i \in SongEventEntries : emitted[i].trig = 1 }) = 2

(***************************************************************************)
(* Notes that wrap around the end of the pattern: a sorted pattern of      *)
(* MaxLength + 1 ticks with up to MaxEvents note-ons and note-offs of one  *)
(* note, under one trigger with any start, end and offset.                 *)
(***************************************************************************)
WrapEventPool ==
    { Event(t, st, 60) : t \in 0 .. MaxLength, st \in {EVENT_NOTE_ON, EVENT_NOTE_OFF} }

WrapTriggers ==
    { Trigger(s, e, o, 0) : s \in 0 .. MaxSongTick, e \in 0 .. MaxSongTick, o \in 0 .. MaxLength }

InitWrap ==
    /\ m_events \in { l \in SeqsUpTo(WrapEventPool, MaxEvents) : sort(l) = l }
    /\ m_length = MaxLength + 1
    /\ m_triggers \in { << t >> : t \in { u \in WrapTriggers : u.tick_start <= u.tick_end } }
    /\ m_song_mute = FALSE
    /\ m_info = DefaultInfo
    /\ settings = DefaultSettings
    /\ m_bytes = << >>
    /\ pc = "idle"
    /\ loc = Idle
    /\ result = TRUE
    /\ emitted = << >>
    /\ ub = {}
    /\ arg = [v |-> 0, at |-> 0]

SpecWrap == InitWrap /\ [][NextPhase]_vars

\* Every note-on of the pattern has its note-off: for each note as many
\* note-offs as note-ons, the note-off before or after the note-on.
NotesPaired ==
    \A n \in PatternNotes :
        Cardinality({ j \in 1 .. Len(m_events) : is_note_on(m_events[j]) /\ m_events[j].d0 = n })
          = Cardinality({ j \in 1 .. Len(m_events) :
                            is_note_off(m_events[j]) /\ m_events[j].d0 = n })

\* C27: no note is left hanging in song export: when song_fill_seq_event
\* returns for a trigger the open count of every note is zero, every
\* note-on written for the trigger having been followed by a note-off of
\* the same note written at or before tick_end, for any pattern whose
\* note-ons all have a note-off, also one that comes before the note-on in
\* pattern time.
NoHangingNotes ==
    (InSongExport /\ pc = "song_triggers" /\ PatternInLength /\ NotesPaired
        /\ sort(m_events) = m_events) =>
        /\ loc.t > 1 => \A n \in PatternNotes : loc.note_is_used[n] = 0
        /\ \A t \in TriggersDone : \A n \in PatternNotes :
              NoteOnsWritten(t, n, Len(emitted)) = NoteOffsWritten(t, n, Len(emitted))

\* C28: every event song_fill_seq_event writes for a trigger, whatever its
\* status, is written with a timestamp inside the window of the trigger,
\* [tick_start, tick_end].
SongEventsInsideWindow ==
    (InSongExport /\ m_length > 0) =>
        \A k \in SongEventEntries :
            /\ emitted[k].timestamp >= m_triggers[emitted[k].trig].tick_start
            /\ emitted[k].timestamp <= m_triggers[emitted[k].trig].tick_end

(***************************************************************************)
(* The delta-times of a track summed up.                                   *)
(***************************************************************************)
\* The delta-times, as the bytes have them, of the first k entries written.
RECURSIVE DeltaSum(_)
DeltaSum(k) ==
    IF k = 0 THEN 0
    ELSE decode_varint(m_bytes, emitted[k].at, 0, 0).value + DeltaSum(k - 1)

RECURSIVE MaxTimestamp(_)
MaxTimestamp(k) ==
    IF k = 0 THEN 0
    ELSE LET rest == MaxTimestamp(k - 1)
         IN  IF m_events[k].timestamp > rest THEN m_events[k].timestamp ELSE rest

\* C29: in fill, for events with non-negative timestamps, the
\* previous-timestamp cursor is at every step the sum of the delta-times
\* written so far, and the delta-times of the finished track, the one of
\* the end of track included, add up to the larger of the pattern length
\* and the largest timestamp of an event.
FillCursorIsDeltaSum ==
    (loc.fn = "fill" /\ loc.calls = 1 /\ AllTimestampsNonNegative) =>
        /\ pc = "fill_events" => loc.prevtimestamp = DeltaSum(Len(emitted))
        /\ pc = "idle" =>
              LET last == MaxTimestamp(Len(m_events))
              IN  DeltaSum(Len(emitted)) = IF m_length > last THEN m_length ELSE last

\* A finished fill of two events given out of order, the later one past
\* the pattern length: the delta-times add up to its timestamp.
FillCursorIsDeltaSumWitness ==
    /\ pc = "idle"
    /\ loc.fn = "fill"
    /\ AllTimestampsNonNegative
    /\ Len(m_events) = 2
    /\ m_events[1].timestamp = MaxTick
    /\ m_events[2].timestamp = 1
    /\ m_length = 1
    /\ DeltaSum(Len(emitted)) = MaxTick

\* C30: in song export the delta-time of the end of track, the snapped end
\* of the track less the timestamp of the last event written, is >= 0
\* for every pattern and every list of triggers sorted by start and
\* disjoint.
SongEndOfTrackDeltaNonNegative ==
    (SongExportDone /\ TriggersDisjoint) =>
        /\ emitted[Len(emitted)].note = EVENT_META_END_OF_TRACK
        /\ emitted[Len(emitted)].delta >= 0

=============================================================================
